---------------------------- MODULE Spec2Model ----------------------------
(***************************************************************************)
(* Fair Bucket Splitter (static/js/splitter.js): the A/B bucket assignment *)
(* kept in localStorage, its manual override, and the identity-key / hash  *)
(* chain that computes a fresh assignment.                                 *)
(*                                                                         *)
(* JavaScript strings are sequences of UTF-16 code units (naturals).       *)
(* A uint32 is a record [hi, lo] of two 16-bit halves, value hi*2^16 + lo: *)
(* TLC integers stop at 2^31 - 1, the scores do not.                       *)
(***************************************************************************)
EXTENDS Integers, Sequences, FiniteSets, TLC

(***************************************************************************)
(* Strings                                                                 *)
(***************************************************************************)

\* "|"  (line 198)
STR_PIPE == <<124>>

\* "random-"  (line 178)
STR_RANDOM == <<114, 97, 110, 100, 111, 109, 45>>

\* The code units String.prototype.trim removes (WhiteSpace and
\* LineTerminator of ECMAScript).
WhiteSpace ==
    {9, 10, 11, 12, 13, 32, 160, 5760, 8232, 8233, 8239, 8287, 12288, 65279}
        \cup (8192..8202)

RECURSIVE trimStart(_)
trimStart(s) ==
    IF s = <<>> THEN <<>>
    ELSE IF Head(s) \in WhiteSpace THEN trimStart(Tail(s)) ELSE s

RECURSIVE trimEnd(_)
trimEnd(s) ==
    IF s = <<>> THEN <<>>
    ELSE IF s[Len(s)] \in WhiteSpace THEN trimEnd(SubSeq(s, 1, Len(s) - 1)) ELSE s

\* String.prototype.trim
trim(s) == trimEnd(trimStart(s))

\* String.prototype.toLowerCase on one code unit (Basic Latin and Latin-1;
\* the model's strings hold no other cased letters).
lowerUnit(c) ==
    IF c >= 65 /\ c <= 90 THEN c + 32
    ELSE IF c >= 192 /\ c <= 222 /\ c # 215 THEN c + 32
    ELSE c

\* String.prototype.toLowerCase
toLowerCase(s) == [i \in 1..Len(s) |-> lowerUnit(s[i])]

RECURSIVE decimalDigits(_)
decimalDigits(n) ==
    IF n < 10 THEN <<48 + n>> ELSE decimalDigits(n \div 10) \o <<48 + (n % 10)>>

(***************************************************************************)
(* JavaScript values handed over by the identity provider: a string, a     *)
(* natural number, or undefined/null.                                       *)
(***************************************************************************)
JsStr(s) == [t |-> "string", s |-> s, n |-> 0]
JsNum(n) == [t |-> "number", s |-> <<>>, n |-> n]
JsUndefined == [t |-> "undefined", s |-> <<>>, n |-> 0]

\* ToBoolean
truthy(v) ==
    CASE v.t = "string" -> v.s # <<>>
      [] v.t = "number" -> v.n # 0
      [] OTHER -> FALSE

\* String(v) for the values above
String(v) ==
    CASE v.t = "string" -> v.s
      [] v.t = "number" -> decimalDigits(v.n)
      [] OTHER -> <<117, 110, 100, 101, 102, 105, 110, 101, 100>>


(***************************************************************************)
(* uint32 arithmetic on 16-bit halves                                      *)
(***************************************************************************)
U32(hi, lo) == [hi |-> hi, lo |-> lo]

\* a >= b on uint32
GE32(a, b) == a.hi > b.hi \/ (a.hi = b.hi /\ a.lo >= b.lo)

\* (a + b) mod 2^32
add32(a, b) ==
    LET lo == a.lo + b.lo
    IN  U32((a.hi + b.hi + (lo \div 65536)) % 65536, lo % 65536)

\* (a << k) mod 2^32: the bits of JavaScript's int32 a << k, 0 <= k < 32
shl32(a, k) ==
    IF k >= 16
    THEN U32((a.lo * (2 ^ (k - 16))) % 65536, 0)
    ELSE U32((a.hi * (2 ^ k) + (a.lo \div (2 ^ (16 - k)))) % 65536,
             (a.lo * (2 ^ k)) % 65536)

\* bitwise exclusive or of two naturals
RECURSIVE bitXor(_, _)
bitXor(a, b) ==
    IF a = 0 THEN b
    ELSE IF b = 0 THEN a
    ELSE ((a + b) % 2) + 2 * bitXor(a \div 2, b \div 2)

(***************************************************************************)
(* UTF-8                                                                   *)
(***************************************************************************)
isHighSurrogate(c) == c >= 55296 /\ c <= 56319
isLowSurrogate(c) == c >= 56320 /\ c <= 57343

\* the UTF-8 bytes of one code point
utf8CodePoint(cp) ==
    IF cp < 128 THEN <<cp>>
    ELSE IF cp < 2048 THEN <<192 + (cp \div 64), 128 + (cp % 64)>>
    ELSE IF cp < 65536
    THEN <<224 + (cp \div 4096), 128 + ((cp \div 64) % 64), 128 + (cp % 64)>>
    ELSE <<240 + (cp \div 262144), 128 + ((cp \div 4096) % 64),
           128 + ((cp \div 64) % 64), 128 + (cp % 64)>>

\* new TextEncoder().encode(str): a lone surrogate becomes U+FFFD  (line 218)
RECURSIVE textEncode(_)
textEncode(str) ==
    IF str = <<>> THEN <<>>
    ELSE IF isHighSurrogate(str[1]) /\ Len(str) >= 2 /\ isLowSurrogate(str[2])
    THEN utf8CodePoint(65536 + (str[1] - 55296) * 1024 + (str[2] - 56320))
             \o textEncode(SubSeq(str, 3, Len(str)))
    ELSE IF isHighSurrogate(str[1]) \/ isLowSurrogate(str[1])
    THEN utf8CodePoint(65533) \o textEncode(Tail(str))
    ELSE utf8CodePoint(str[1]) \o textEncode(Tail(str))

\* the characters encodeURIComponent leaves alone: A-Z a-z 0-9 - _ . ! ~ * ' ( )
uriUnreserved ==
    (65..90) \cup (97..122) \cup (48..57) \cup {45, 95, 46, 33, 126, 42, 39, 40, 41}

hexDigit(n) == IF n < 10 THEN 48 + n ELSE 55 + n

RECURSIVE percentEscape(_)
percentEscape(bytes) ==
    IF bytes = <<>> THEN <<>>
    ELSE <<37, hexDigit(bytes[1] \div 16), hexDigit(bytes[1] % 16)>>
             \o percentEscape(Tail(bytes))

\* encodeURIComponent(str): [ok, s]; a lone surrogate is a URIError (ok = FALSE)
RECURSIVE encodeURIComponent(_)
encodeURIComponent(str) ==
    IF str = <<>> THEN [ok |-> TRUE, s |-> <<>>]
    ELSE IF str[1] \in uriUnreserved
    THEN LET r == encodeURIComponent(Tail(str))
         IN  [ok |-> r.ok, s |-> <<str[1]>> \o r.s]
    ELSE IF isHighSurrogate(str[1]) /\ Len(str) >= 2 /\ isLowSurrogate(str[2])
    THEN LET r == encodeURIComponent(SubSeq(str, 3, Len(str)))
             cp == 65536 + (str[1] - 55296) * 1024 + (str[2] - 56320)
         IN  [ok |-> r.ok, s |-> percentEscape(utf8CodePoint(cp)) \o r.s]
    ELSE IF isHighSurrogate(str[1]) \/ isLowSurrogate(str[1])
    THEN [ok |-> FALSE, s |-> <<>>]
    ELSE LET r == encodeURIComponent(Tail(str))
         IN  [ok |-> r.ok, s |-> percentEscape(utf8CodePoint(str[1])) \o r.s]

\* the value of one hexadecimal digit character
hexValue(c) ==
    IF c >= 48 /\ c <= 57 THEN c - 48
    ELSE IF c >= 65 /\ c <= 70 THEN c - 55
    ELSE c - 87

\* the loop of strToUtf8Bytes over enc, from index i (1-based)
RECURSIVE percentDecode(_, _)
percentDecode(enc, i) ==
    IF i > Len(enc) THEN <<>>
    ELSE IF enc[i] = 37
    THEN <<hexValue(enc[i + 1]) * 16 + hexValue(enc[i + 2])>>
             \o percentDecode(enc, i + 3)
    ELSE <<enc[i]>> \o percentDecode(enc, i + 1)

\* strToUtf8Bytes(str): [ok, bytes]; ok = FALSE when encodeURIComponent throws
strToUtf8Bytes(str) ==
    LET enc == encodeURIComponent(str)
    IN  IF enc.ok THEN [ok |-> TRUE, bytes |-> percentDecode(enc.s, 1)]
        ELSE [ok |-> FALSE, bytes |-> <<>>]

(***************************************************************************)
(* Hashing                                                                 *)
(***************************************************************************)

\* 0x811c9dc5
FNV_OFFSET_BASIS == U32(33052, 40389)

\* a round of fnv1a32 without the term h << 7
fnvRoundShort(h, c) ==
    LET x == U32(h.hi, bitXor(h.lo, c))
        shifts == add32(add32(add32(shl32(x, 1), shl32(x, 4)), shl32(x, 8)),
                        shl32(x, 24))
    IN  add32(x, shifts)

\* one round of the loop of fnv1a32 (lines 281-282)
fnvRound(h, c) ==
    LET x == U32(h.hi, bitXor(h.lo, c))
        shifts == add32(add32(add32(add32(shl32(x, 1), shl32(x, 4)),
                                    shl32(x, 7)), shl32(x, 8)), shl32(x, 24))
    IN  add32(x, shifts)

RECURSIVE fnvLoop(_, _, _)
fnvLoop(h, str, i) ==
    IF i > Len(str) THEN h ELSE fnvLoop(fnvRound(h, str[i]), str, i + 1)

\* fnv1a32(str)
fnv1a32(str) == fnvLoop(FNV_OFFSET_BASIS, str, 1)

RECURSIVE weightedSum(_, _)
weightedSum(bytes, i) ==
    IF i > Len(bytes) THEN 0
    ELSE ((i * bytes[i]) + weightedSum(bytes, i + 1)) % 65521

\* crypto.subtle.digest("SHA-256", bytes) is a capability of the browser, not
\* code of the splitter.  Its place is taken by one fixed function from byte
\* sequences to 32 bytes: equal bytes give equal digests, different keys of
\* the model give digests on both sides of the threshold.
digest(bytes) ==
    LET w == weightedSum(bytes, 1) + Len(bytes)
    IN  [i \in 1..32 |-> (w * (2 * i + 5) + (w \div 7) * i) % 256]

\* new DataView(buffer).getUint32(0, false) >>> 0  (lines 226-227)
getUint32BE(buffer) ==
    U32(buffer[1] * 256 + buffer[2], buffer[3] * 256 + buffer[4])

\* the four bytes read in the other order
u8ToUint32LittleEndian(buffer) ==
    U32(buffer[4] * 256 + buffer[3], buffer[2] * 256 + buffer[1])

\* ((u8[0] << 24) | (u8[1] << 16) | (u8[2] << 8) | u8[3]) >>> 0  (lines 229-230)
u8ToUint32(buffer) ==
    LET b0 == shl32(U32(0, buffer[1]), 24)
        b1 == shl32(U32(0, buffer[2]), 16)
        b2 == shl32(U32(0, buffer[3]), 8)
    IN  U32(b0.hi + b1.hi, b2.lo + buffer[4])

(***************************************************************************)
(* The durable store: localStorage restricted to the two keys of the        *)
(* splitter.  Null is getItem's answer for a key that is not set.           *)
(***************************************************************************)
FAIR_BUCKET_STORAGE_KEY == "fair_bucket"
FAIR_BUCKET_MANUAL_KEY == "fair_bucket_manual"

Null == "<null>"
Undefined == "<undefined>"

EmptyStore ==
    [k \in {FAIR_BUCKET_STORAGE_KEY, FAIR_BUCKET_MANUAL_KEY} |-> Null]

getItem(s, k) == s[k]
setItem(s, k, v) == [s EXCEPT ![k] = v]
removeItem(s, k) == [s EXCEPT ![k] = Null]

\* One call of a store function, as the access log of a step records it:
\* the function, whether the localStorage call inside it threw, whether the
\* function raised to its caller, what it returned (booleans as "true" and
\* "false"), and whether the store after differs from the store before.
Access(fn, threw, exc, ret, before, after) ==
    [fn |-> fn, threw |-> threw, exc |-> exc, ret |-> ret,
     changed |-> before # after]

boolString(b) == IF b THEN "true" ELSE "false"

(***************************************************************************)
(* The store functions.  Each takes the store and whether the localStorage  *)
(* call it makes throws, and gives [ls, ret, exc, log]: the store after,    *)
(* the value returned, whether an exception leaves the function, and the    *)
(* access.                                                                  *)
(***************************************************************************)
\* getSavedBucket without its try and catch
getSavedBucketUncaught(s, threw) ==
    LET ret == IF threw THEN Null ELSE getItem(s, FAIR_BUCKET_STORAGE_KEY)
    IN  [ls |-> s, ret |-> ret, exc |-> threw,
         log |-> <<Access("getSavedBucket", threw, threw, ret, s, s)>>]

\* getSavedBucket reading the other key of the splitter
getSavedBucketOtherKey(s, threw) ==
    LET ret == IF threw THEN Null ELSE getItem(s, FAIR_BUCKET_MANUAL_KEY)
    IN  [ls |-> s, ret |-> ret, exc |-> FALSE,
         log |-> <<Access("getSavedBucket", threw, FALSE, ret, s, s)>>]

getSavedBucket(s, threw) ==
    LET ret == IF threw THEN Null ELSE getItem(s, FAIR_BUCKET_STORAGE_KEY)
    IN  [ls |-> s, ret |-> ret, exc |-> FALSE,
         log |-> <<Access("getSavedBucket", threw, FALSE, ret, s, s)>>]

\* saveBucket without its try and catch
saveBucketUncaught(s, bucketName, threw) ==
    LET after == IF threw THEN s
                 ELSE setItem(s, FAIR_BUCKET_STORAGE_KEY, bucketName)
    IN  [ls |-> after, ret |-> Undefined, exc |-> threw,
         log |-> <<Access("saveBucket", threw, threw, Undefined, s, after)>>]

saveBucket(s, bucketName, threw) ==
    LET after == IF threw THEN s
                 ELSE setItem(s, FAIR_BUCKET_STORAGE_KEY, bucketName)
    IN  [ls |-> after, ret |-> Undefined, exc |-> FALSE,
         log |-> <<Access("saveBucket", threw, FALSE, Undefined, s, after)>>]

isManualOverride(s, threw) ==
    LET ret == IF threw THEN FALSE
               ELSE getItem(s, FAIR_BUCKET_MANUAL_KEY) = "true"
    IN  [ls |-> s, ret |-> ret, exc |-> FALSE,
         log |-> <<Access("isManualOverride", threw, FALSE, boolString(ret), s, s)>>]

\* setManualOverride(false) storing "false" instead of removing the flag
setManualOverrideStoresFalse(s, isManual, threw) ==
    LET after == IF threw THEN s
                 ELSE setItem(s, FAIR_BUCKET_MANUAL_KEY, boolString(isManual))
    IN  [ls |-> after, ret |-> Undefined, exc |-> FALSE,
         log |-> <<Access("setManualOverride", threw, FALSE, Undefined, s, after)>>]

\* setManualOverride(false) removing the assignment instead of the flag
setManualOverrideWrongKey(s, isManual, threw) ==
    LET after == IF threw THEN s
                 ELSE IF isManual THEN setItem(s, FAIR_BUCKET_MANUAL_KEY, "true")
                 ELSE removeItem(s, FAIR_BUCKET_STORAGE_KEY)
    IN  [ls |-> after, ret |-> Undefined, exc |-> FALSE,
         log |-> <<Access("setManualOverride", threw, FALSE, Undefined, s, after)>>]

setManualOverride(s, isManual, threw) ==
    LET after == IF threw THEN s
                 ELSE IF isManual THEN setItem(s, FAIR_BUCKET_MANUAL_KEY, "true")
                 ELSE removeItem(s, FAIR_BUCKET_MANUAL_KEY)
    IN  [ls |-> after, ret |-> Undefined, exc |-> FALSE,
         log |-> <<Access("setManualOverride", threw, FALSE, Undefined, s, after)>>]

\* the try block of clearFairBucket removing the flag twice
clearStoreFlagOnly(s, t) ==
    LET two == removeItem(s, FAIR_BUCKET_MANUAL_KEY)
    IN  IF t[1]
        THEN [ls |-> s, ret |-> Undefined, exc |-> FALSE,
              log |-> <<Access("clearFairBucket", TRUE, FALSE, Undefined, s, s)>>]
        ELSE IF t[2]
        THEN [ls |-> two, ret |-> Undefined, exc |-> FALSE,
              log |-> <<Access("clearFairBucket", FALSE, FALSE, Undefined, s, two),
                        Access("clearFairBucket", TRUE, FALSE, Undefined, two, two)>>]
        ELSE [ls |-> two, ret |-> Undefined, exc |-> FALSE,
              log |-> <<Access("clearFairBucket", FALSE, FALSE, Undefined, s, two),
                        Access("clearFairBucket", FALSE, FALSE, Undefined, two, two)>>]

\* the try block of clearFairBucket (lines 136-142): the second removeItem is
\* not reached when the first throws; t = <<first throws, second throws>>
clearStore(s, t) ==
    LET one == removeItem(s, FAIR_BUCKET_STORAGE_KEY)
        two == removeItem(one, FAIR_BUCKET_MANUAL_KEY)
    IN  IF t[1]
        THEN [ls |-> s, ret |-> Undefined, exc |-> FALSE,
              log |-> <<Access("clearFairBucket", TRUE, FALSE, Undefined, s, s)>>]
        ELSE IF t[2]
        THEN [ls |-> one, ret |-> Undefined, exc |-> FALSE,
              log |-> <<Access("clearFairBucket", FALSE, FALSE, Undefined, s, one),
                        Access("clearFairBucket", TRUE, FALSE, Undefined, one, one)>>]
        ELSE [ls |-> two, ret |-> Undefined, exc |-> FALSE,
              log |-> <<Access("clearFairBucket", FALSE, FALSE, Undefined, s, one),
                        Access("clearFairBucket", FALSE, FALSE, Undefined, one, two)>>]

(***************************************************************************)
(* Bucket Mapper                                                           *)
(***************************************************************************)

\* 2147483648, 2^31
EXACT_MIDDLE_POINT == U32(32768, 0)

\* the comparison of line 47 made strict
assignBucketStrict(score) ==
    IF GE32(score, EXACT_MIDDLE_POINT) /\ score # EXACT_MIDDLE_POINT THEN "A" ELSE "B"

\* line 47 of assignFairBucket
assignBucket(score) == IF GE32(score, EXACT_MIDDLE_POINT) THEN "A" ELSE "B"

\* line 154 of getHashBasedBucket
hashBasedBucket(score) == IF GE32(score, EXACT_MIDDLE_POINT) THEN "A" ELSE "B"

(***************************************************************************)
(* The synchronous segments of the orchestrator                            *)
(***************************************************************************)

\* assignFairBucket keeping a stored assignment only when it is a manual
\* override, and computing again over one it stored itself
assignFairBucketEntryRecompute(s, t) ==
    LET g == getSavedBucket(s, t[1])
        m == isManualOverride(s, t[2])
    IN  IF g.exc
        THEN [ls |-> s, found |-> FALSE, ret |-> Null, exc |-> TRUE, log |-> g.log]
        ELSE IF g.ret # Null /\ g.ret # "" /\ m.ret
        THEN [ls |-> s, found |-> TRUE, ret |-> g.ret, exc |-> FALSE,
              log |-> g.log \o m.log]
        ELSE [ls |-> s, found |-> FALSE, ret |-> Null, exc |-> FALSE,
              log |-> g.log \o m.log]

\* assignFairBucket up to its first await (lines 38-45).  t = <<getItem of
\* getSavedBucket throws, getItem of isManualOverride throws>>.  found: the
\* call returns the stored value; otherwise it goes on to buildHashInput.
assignFairBucketEntry(s, t) ==
    LET g == getSavedBucket(s, t[1])
        existing == g.ret
        m == isManualOverride(s, t[2])
    IN  IF g.exc
        THEN [ls |-> s, found |-> FALSE, ret |-> Null, exc |-> TRUE, log |-> g.log]
        ELSE IF existing # Null /\ existing # ""
        THEN [ls |-> s, found |-> TRUE, ret |-> existing, exc |-> m.exc,
              log |-> g.log \o m.log]
        ELSE [ls |-> s, found |-> FALSE, ret |-> Null, exc |-> FALSE, log |-> g.log]

\* assignFairBucket after its last await (lines 47-59).  t = <<setItem of
\* saveBucket throws, removeItem of setManualOverride throws>>
assignFairBucketStore(s, score, t) ==
    LET bucket == assignBucket(score)
        sv == saveBucket(s, bucket, t[1])
        mo == setManualOverride(sv.ls, FALSE, t[2])
    IN  IF sv.exc
        THEN [ls |-> sv.ls, ret |-> Null, exc |-> TRUE, log |-> sv.log]
        ELSE [ls |-> mo.ls, ret |-> bucket, exc |-> mo.exc, log |-> sv.log \o mo.log]

\* getHashBasedBucket storing its bucket, as assignFairBucket does
getHashBasedBucketSaving(s, score) ==
    LET r == assignFairBucketStore(s, score, <<FALSE, FALSE>>)
    IN  [ls |-> r.ls, ret |-> hashBasedBucket(score), exc |-> FALSE, log |-> r.log]

\* getHashBasedBucket once hashToUint32 has given the score (lines 153-154):
\* no function of the store is called
getHashBasedBucket(s, score) ==
    [ls |-> s, ret |-> hashBasedBucket(score), exc |-> FALSE, log |-> <<>>]

\* setFairBucket without the check of its argument
setFairBucketUnchecked(s, bucket, t) ==
    LET sv == saveBucket(s, bucket, t[1])
        mo == setManualOverride(sv.ls, TRUE, t[2])
    IN  [ls |-> mo.ls, ret |-> Undefined, exc |-> FALSE, err |-> FALSE,
         log |-> sv.log \o mo.log]

\* setFairBucket that leaves the flag as assignFairBucket does
setFairBucketUnflagged(s, bucket, t) ==
    IF bucket # "A" /\ bucket # "B"
    THEN [ls |-> s, ret |-> Undefined, exc |-> FALSE, err |-> TRUE, log |-> <<>>]
    ELSE LET sv == saveBucket(s, bucket, t[1])
             mo == setManualOverride(sv.ls, FALSE, t[2])
         IN  [ls |-> mo.ls, ret |-> Undefined, exc |-> FALSE, err |-> FALSE,
              log |-> sv.log \o mo.log]

\* setFairBucket (lines 119-129).  err: console.error was called.
\* t = <<setItem of saveBucket throws, setItem of setManualOverride throws>>
setFairBucket(s, bucket, t) ==
    IF bucket # "A" /\ bucket # "B"
    THEN [ls |-> s, ret |-> Undefined, exc |-> FALSE, err |-> TRUE, log |-> <<>>]
    ELSE LET sv == saveBucket(s, bucket, t[1])
             mo == setManualOverride(sv.ls, TRUE, t[2])
         IN  IF sv.exc
             THEN [ls |-> sv.ls, ret |-> Undefined, exc |-> TRUE, err |-> FALSE,
                   log |-> sv.log]
             ELSE [ls |-> mo.ls, ret |-> Undefined, exc |-> mo.exc, err |-> FALSE,
                   log |-> sv.log \o mo.log]

\* clearFairBucket up to its await (lines 136-144): the try block, then the
\* call of assignFairBucket.  t = <<removeItem, removeItem, getItem, getItem>>
clearFairBucketEntry(s, t) ==
    LET cl == clearStore(s, <<t[1], t[2]>>)
        as == assignFairBucketEntry(cl.ls, <<t[3], t[4]>>)
    IN  IF cl.exc
        THEN [ls |-> cl.ls, found |-> FALSE, ret |-> Null, exc |-> TRUE, log |-> cl.log]
        ELSE [ls |-> as.ls, found |-> as.found, ret |-> as.ret, exc |-> as.exc,
              log |-> cl.log \o as.log]

(***************************************************************************)
(* The environment                                                         *)
(***************************************************************************)

\* Math.random() draws one of the values q/4, q in 1..NumRandom.
NumRandom == 2

RandomSamples == 1..NumRandom

\* (q/4).toString(36): "0.9" for 1/4, "0.i" for 1/2, "0.r" for 3/4
randomToString36(q) ==
    <<48, 46, IF 9 * q < 10 THEN 48 + 9 * q ELSE 87 + 9 * q>>

\* Math.floor((q/4) * 0x100000000) >>> 0
randomToUint32(q) == U32(q * 16384, 0)

\* String.prototype.substring(from, to), 0 <= from <= to
substring(str, from, to) ==
    SubSeq(str, from + 1, IF to < Len(str) THEN to ELSE Len(str))

\* What crypto.getRandomValues leaves in arr[0], or that it throws.
SecureRandom ==
    {[ok |-> FALSE, v |-> U32(0, 0)]}
        \cup {[ok |-> TRUE, v |-> v] :
                v \in {U32(0, 0), U32(32767, 65535), U32(32768, 0), U32(65535, 65535)}}

\* The ip field of the object getGeoIP resolves with (undefined also stands
\* for a response that is null or has no ip field).
IpFields ==
    {JsUndefined, JsStr(<<>>), JsStr(<<32, 9>>), JsStr(<<32, 55, 32>>),
     JsNum(0), JsNum(7)}

\* How the awaited getGeoIP() settles.
GeoSettled ==
    {[k |-> "rejects", ip |-> JsUndefined]}
        \cup {[k |-> "resolves", ip |-> v] : v \in IpFields}

\* navigator.userAgent: readable, or reading it throws.
UserAgents == {[ok |-> TRUE, s |-> <<77, 122, 32>>], [ok |-> FALSE, s |-> <<>>]}

\* What the fallback stages of the hash chain meet: fnv1a32 throws or not,
\* then crypto.getRandomValues, then Math.random (a stage that is not
\* reached has one fixed entry).
FallbackEnv ==
    {[fnv |-> FALSE, grv |-> [ok |-> FALSE, v |-> U32(0, 0)], rnd |-> 1]}
        \cup {[fnv |-> TRUE, grv |-> g, rnd |-> 1] : g \in {x \in SecureRandom : x.ok}}
        \cup {[fnv |-> TRUE, grv |-> [ok |-> FALSE, v |-> U32(0, 0)], rnd |-> q] :
                q \in RandomSamples}

\* What hashToUint32 meets up to its await: TextEncoder throws or not; the
\* call of crypto.subtle.digest throws (there is no crypto.subtle), or gives
\* a promise.
HashCallEnv ==
    {[enc |-> b, dig |-> "pending", fb |-> CHOOSE f \in FallbackEnv : ~f.fnv] :
        b \in BOOLEAN}
        \cup {[enc |-> FALSE, dig |-> "throws", fb |-> f] : f \in FallbackEnv}

\* How the digest's promise settles: resolved (DataView throws or not), or
\* rejected and the fallback stages run.
HashSettleEnv ==
    {[dig |-> "resolves", view |-> b, fb |-> CHOOSE f \in FallbackEnv : ~f.fnv] :
        b \in BOOLEAN}
        \cup {[dig |-> "rejects", view |-> FALSE, fb |-> f] : f \in FallbackEnv}

\* The call of getGeoIP in getMyIpAddress: no such function, it throws, or it
\* gives something to await; with the Math.random draw of the fallback.
GeoCallEnv ==
    {[geo |-> "pending", rnd |-> 1]}
        \cup {[geo |-> "throws", rnd |-> 1]}
        \cup {[geo |-> "missing", rnd |-> q] : q \in RandomSamples}

(***************************************************************************)
(* Identity Key Builder                                                    *)
(***************************************************************************)

\* String(data?.ip || "").trim()  (line 170)
ipOfData(v) == trim(String(IF truthy(v) THEN v ELSE JsStr(<<>>)))

\* `random-${Math.random().toString(36).substring(2, 15)}`  (line 178)
randomId(q) == STR_RANDOM \o substring(randomToString36(q), 2, 15)

\* getMyIpAddress up to its await (lines 166-169, 173-180): without a getGeoIP
\* to await, the fallback identifier at once
getMyIpAddressCall(g) ==
    IF g.geo = "pending" THEN [pending |-> TRUE, ip |-> <<>>]
    ELSE [pending |-> FALSE, ip |-> randomId(g.rnd)]

\* getMyIpAddress once getGeoIP() has settled as o (lines 169-180)
getMyIpAddress(o, q) ==
    IF o.k = "resolves" /\ ipOfData(o.ip) # <<>> THEN ipOfData(o.ip) ELSE randomId(q)

\* buildHashInput once getMyIpAddress has given ip (lines 190-198)
buildHashInput(ip, nav) ==
    LET ua == IF nav.ok THEN nav.s ELSE <<>>
    IN  toLowerCase(trim(ip \o STR_PIPE \o ua))

(***************************************************************************)
(* Hash Chain: hashToUint32, cut at its await of crypto.subtle.digest      *)
(***************************************************************************)

\* one stage of the chain has been entered, and has returned (ok) or thrown
Tried(stage, ok) == [stage |-> stage, ok |-> ok]

\* The stages in the order hashToUint32 orders them, with a secure random
\* source tried ahead of FNV-1a.
hashFallbackRandomFirst(text, f) ==
    IF f.grv.ok
    THEN [score |-> f.grv.v, stage |-> "getRandomValues",
          tried |-> <<Tried("getRandomValues", TRUE)>>]
    ELSE IF ~f.fnv
    THEN [score |-> fnv1a32(text), stage |-> "fnv1a32",
          tried |-> <<Tried("getRandomValues", FALSE), Tried("fnv1a32", TRUE)>>]
    ELSE [score |-> randomToUint32(f.rnd), stage |-> "Math.random",
          tried |-> <<Tried("getRandomValues", FALSE), Tried("fnv1a32", FALSE),
                      Tried("Math.random", TRUE)>>]

\* lines 236-250: FNV-1a, else crypto.getRandomValues, else Math.random.
\* tried: the stages entered, in order, each with whether it returned.
hashFallback(text, f) ==
    IF ~f.fnv
    THEN [score |-> fnv1a32(text), stage |-> "fnv1a32",
          tried |-> <<Tried("fnv1a32", TRUE)>>]
    ELSE IF f.grv.ok
    THEN [score |-> f.grv.v, stage |-> "getRandomValues",
          tried |-> <<Tried("fnv1a32", FALSE), Tried("getRandomValues", TRUE)>>]
    ELSE [score |-> randomToUint32(f.rnd), stage |-> "Math.random",
          tried |-> <<Tried("fnv1a32", FALSE), Tried("getRandomValues", FALSE),
                      Tried("Math.random", TRUE)>>]

\* lines 212-223, up to the await: the bytes, then the call of digest.
\* pending: the call is suspended on the digest's promise.
hashToUint32Call(text, e) ==
    LET own == strToUtf8Bytes(text)
        bytes == IF e.enc THEN own.bytes ELSE textEncode(text)
        fb == hashFallback(text, e.fb)
    IN  IF (e.enc /\ ~own.ok) \/ e.dig = "throws"
        THEN [pending |-> FALSE, bytes |-> <<>>, score |-> fb.score, stage |-> fb.stage,
              tried |-> <<Tried("SHA-256", FALSE)>> \o fb.tried]
        ELSE [pending |-> TRUE, bytes |-> bytes, score |-> U32(0, 0), stage |-> "",
              tried |-> <<>>]

\* lines 223-250, from the await on: the digest's promise has settled
hashToUint32Settled(text, bytes, e) ==
    LET buffer == digest(bytes)
        fb == hashFallback(text, e.fb)
    IN  IF e.dig = "resolves"
        THEN [score |-> IF e.view THEN u8ToUint32(buffer) ELSE getUint32BE(buffer),
              stage |-> "SHA-256", tried |-> <<Tried("SHA-256", TRUE)>>]
        ELSE [fb EXCEPT !.tried = <<Tried("SHA-256", FALSE)>> \o fb.tried]

(***************************************************************************)
(* State                                                                   *)
(*                                                                         *)
(* ls         localStorage (the two keys of the splitter)                  *)
(* userAgent  navigator.userAgent of this page                             *)
(* call       the asynchronous calls in flight, one record per caller:     *)
(*            the function called, the await it is suspended at, and its   *)
(*            locals                                                       *)
(* ev         the step just taken: what was called, what it returned and   *)
(*            the store calls it made; pred: when assignFairBucket         *)
(*            returns, the operation that had returned before it; geo:     *)
(*            how getGeoIP() settled, when the step resumes from it;       *)
(*            tried: the stages hashToUint32 entered, when it returns      *)
(* prev       the last operation on the store that has returned            *)
(* manual     the bucket of the last setFairBucket whose writes took       *)
(*            effect, until the next call of setFairBucket or of           *)
(*            clearFairBucket                                              *)
(***************************************************************************)
VARIABLES ls, userAgent, call, ev, prev, manual

vars == <<ls, userAgent, call, ev, prev, manual>>

\* Two callers: each has at most one call in flight.
Calls == {"first", "second"}

StoreOps == {"assignFairBucket", "clearFairBucket"}

\* sf: a store call of this call threw
\* solo: no other operation on the store has taken a step during this call
Idle ==
    [op |-> "", pc |-> "idle", ip |-> <<>>, key |-> <<>>, bytes |-> <<>>,
     sf |-> FALSE, solo |-> TRUE]

\* d is between the entry of a store operation and its return
Busy(d) == call[d].op \in StoreOps

\* d has found no assignment and has not yet written one
Computing(d) ==
    call[d].op \in StoreOps /\ call[d].pc \in {"getGeoIP", "buildHashInput", "digest"}

OthersBusy(c) == \E d \in Calls \ {c} : Busy(d)

\* the calls in flight, once caller c ("": a synchronous caller) has acted on
\* the store
Disturbed(c) ==
    [d \in Calls |-> IF d # c /\ Busy(d) THEN [call[d] EXCEPT !.solo = FALSE]
                     ELSE call[d]]

NoPrev ==
    [op |-> "none", val |-> Null, nw |-> 0, clean |-> TRUE, solo |-> TRUE,
     key |-> <<>>, stage |-> "", with |-> {}]

\* What is kept of an operation that has returned val: the new values it
\* wrote to the assignment, whether all its store calls went through, and
\* whether it ran alone; of one that stored while the calls `with` were
\* computing, its key and the stage that gave its score.
Summary(op, val, nw, clean, solo, key, stage, with) ==
    IF with # {}
    THEN [op |-> op, val |-> val, nw |-> nw, clean |-> clean, solo |-> solo,
          key |-> key, stage |-> stage, with |-> with]
    ELSE IF solo
    THEN [NoPrev EXCEPT !.op = op, !.val = val, !.nw = nw, !.clean = clean]
    ELSE [NoPrev EXCEPT !.op = "overlapped", !.solo = FALSE]

Threw(log) == \E i \in 1..Len(log) : log[i].threw

\* the writes of a new value to the assignment field among the accesses
NewWrites(log) ==
    Cardinality({i \in 1..Len(log) : log[i].fn = "saveBucket" /\ log[i].changed})

NoEvent ==
    [op |-> "init", call |-> "", returned |-> "", arg |-> Null, ret |-> Null,
     exc |-> FALSE, err |-> FALSE, acc |-> <<>>, moved |-> FALSE, key |-> <<>>,
     score |-> U32(0, 0), stage |-> "", fresh |-> FALSE, sf |-> FALSE, nw |-> 0,
     solo |-> TRUE, pred |-> NoPrev, geo |-> [k |-> "", ip |-> JsUndefined],
     tried |-> <<>>]

Event(op, c) == [NoEvent EXCEPT !.op = op, !.call = c]

Init ==
    /\ ls = EmptyStore
    /\ userAgent \in UserAgents
    /\ call = [c \in Calls |-> Idle]
    /\ ev = NoEvent
    /\ prev = NoPrev
    /\ manual = Null

\* Which store calls of a step throw; a call that is not made does not throw.
\* assignFairBucket up to its await: getSavedBucket, then isManualOverride
AssignEnv == {t \in BOOLEAN \X BOOLEAN : t[1] => ~t[2]}

\* clearFairBucket up to its await: the two removals, then assignFairBucket
ClearEnv ==
    {t \in BOOLEAN \X BOOLEAN \X BOOLEAN \X BOOLEAN : (t[1] => ~t[2]) /\ (t[3] => ~t[4])}

\* saveBucket, then setManualOverride
WriteEnv == BOOLEAN \X BOOLEAN

\* The locals of a call that is suspended in getMyIpAddress or buildHashInput.
Suspended(c, op, g, sf) ==
    LET a == getMyIpAddressCall(g)
    IN  [Idle EXCEPT !.op = op, !.pc = IF a.pending THEN "getGeoIP" ELSE "buildHashInput",
                     !.ip = a.ip, !.sf = sf, !.solo = ~OthersBusy(c)]

(***************************************************************************)
(* assignFairBucket(), from the call to the first await or to its return   *)
(* of the stored assignment.                                               *)
(***************************************************************************)
AssignCall(c) ==
    /\ call[c].pc = "idle"
    /\ \E t \in AssignEnv :
         LET r == assignFairBucketEntry(ls, t)
             e == [Event("assignFairBucket", c) EXCEPT
                     !.acc = r.log, !.sf = Threw(r.log), !.moved = (r.ls # ls)]
         IN  /\ ls' = r.ls
             /\ IF r.exc \/ r.found
                THEN /\ call' = [Disturbed(c) EXCEPT ![c] = Idle]
                     /\ ev' = [e EXCEPT !.returned = "assignFairBucket", !.exc = r.exc,
                                        !.ret = r.ret, !.solo = ~OthersBusy(c),
                                        !.pred = prev]
                     /\ prev' = Summary("assignFairBucket", r.ret, 0, ~Threw(r.log),
                                        ~OthersBusy(c), <<>>, "", {})
                ELSE /\ \E g \in GeoCallEnv :
                          call' = [Disturbed(c) EXCEPT
                                     ![c] = Suspended(c, "assignFairBucket", g,
                                                      Threw(r.log))]
                     /\ ev' = e
                     /\ prev' = prev
    /\ UNCHANGED <<userAgent, manual>>

(***************************************************************************)
(* clearFairBucket(), from the call to the first await: the removals, then *)
(* assignFairBucket() up to its first await, or to its return of a value   *)
(* that is still stored, which clearFairBucket returns.                    *)
(***************************************************************************)
ClearCall(c) ==
    /\ call[c].pc = "idle"
    /\ \E t \in ClearEnv :
         LET r == clearFairBucketEntry(ls, t)
             e == [Event("clearFairBucket", c) EXCEPT
                     !.acc = r.log, !.sf = Threw(r.log), !.moved = (r.ls # ls)]
         IN  /\ ls' = r.ls
             /\ IF r.exc \/ r.found
                THEN /\ call' = [Disturbed(c) EXCEPT ![c] = Idle]
                     /\ ev' = [e EXCEPT !.returned = "clearFairBucket", !.exc = r.exc,
                                        !.ret = r.ret, !.solo = ~OthersBusy(c)]
                     /\ prev' = Summary("clearFairBucket", r.ret, 0, ~Threw(r.log),
                                        ~OthersBusy(c), <<>>, "", {})
                ELSE /\ \E g \in GeoCallEnv :
                          call' = [Disturbed(c) EXCEPT
                                     ![c] = Suspended(c, "clearFairBucket", g,
                                                      Threw(r.log))]
                     /\ ev' = e
                     /\ prev' = prev
    /\ manual' = Null
    /\ UNCHANGED userAgent

(***************************************************************************)
(* getHashBasedBucket(), from the call to its first await.                 *)
(***************************************************************************)
PeekCall(c) ==
    /\ call[c].pc = "idle"
    /\ \E g \in GeoCallEnv :
         call' = [call EXCEPT ![c] = Suspended(c, "getHashBasedBucket", g, FALSE)]
    /\ ev' = Event("getHashBasedBucket", c)
    /\ UNCHANGED <<ls, userAgent, prev, manual>>

\* getMyIpAddress calling getGeoIP() again when its promise rejects
GeoSettlesRetry(c) ==
    /\ call[c].pc = "getGeoIP"
    /\ \E o \in GeoSettled, q \in RandomSamples :
         /\ call' = IF o.k = "rejects" THEN call
                    ELSE [call EXCEPT ![c].pc = "buildHashInput",
                                      ![c].ip = getMyIpAddress(o, q)]
         /\ ev' = [Event("getGeoIP", c) EXCEPT !.geo = o]
    /\ UNCHANGED <<ls, userAgent, prev, manual>>

(***************************************************************************)
(* getGeoIP() settles: getMyIpAddress resumes and returns the ip.          *)
(***************************************************************************)
GeoSettles(c) ==
    /\ call[c].pc = "getGeoIP"
    /\ \E o \in GeoSettled, q \in RandomSamples :
         /\ call' = [call EXCEPT ![c].pc = "buildHashInput",
                                 ![c].ip = getMyIpAddress(o, q)]
         /\ ev' = [Event("getGeoIP", c) EXCEPT !.geo = o]
    /\ UNCHANGED <<ls, userAgent, prev, manual>>

(***************************************************************************)
(* hashToUint32 has given the score h.score for key to the call of c:      *)
(* getHashBasedBucket returns (line 154); assignFairBucket stores and      *)
(* returns (lines 47-59), to its caller or through the `return await` of   *)
(* clearFairBucket (line 144).                                             *)
(***************************************************************************)
Finished(c, key, h) ==
    IF call[c].op = "getHashBasedBucket"
    THEN LET r == getHashBasedBucket(ls, h.score)
         IN  /\ ls' = r.ls
             /\ call' = [call EXCEPT ![c] = Idle]
             /\ ev' = [Event("getHashBasedBucket", c) EXCEPT
                         !.returned = "getHashBasedBucket", !.ret = r.ret,
                         !.exc = r.exc, !.acc = r.log, !.moved = (r.ls # ls),
                         !.key = key, !.score = h.score, !.stage = h.stage,
                         !.tried = h.tried]
             /\ UNCHANGED <<prev, manual>>
    ELSE \E t \in WriteEnv :
           LET r == assignFairBucketStore(ls, h.score, t)
               sf == call[c].sf \/ Threw(r.log)
               racing == {d \in Calls \ {c} : Computing(d)}
           IN  /\ ls' = r.ls
               /\ call' = [Disturbed(c) EXCEPT ![c] = Idle]
               /\ ev' = [Event(call[c].op, c) EXCEPT
                           !.returned = call[c].op, !.ret = r.ret, !.exc = r.exc,
                           !.acc = r.log, !.moved = (r.ls # ls), !.key = key,
                           !.score = h.score, !.stage = h.stage,
                           !.tried = h.tried, !.fresh = TRUE,
                           !.sf = sf, !.nw = NewWrites(r.log),
                           !.solo = call[c].solo,
                           !.pred = IF call[c].op = "assignFairBucket" THEN prev
                                    ELSE NoPrev]
               /\ prev' = Summary(call[c].op, r.ret, NewWrites(r.log), ~sf,
                                  call[c].solo, key, h.stage, racing)
               /\ manual' = manual

(***************************************************************************)
(* getMyIpAddress has returned: buildHashInput builds the key (lines       *)
(* 190-198) and hashToUint32 runs up to its await of the digest, or, with  *)
(* no digest to await, to its return.                                      *)
(***************************************************************************)
KeyReady(c) ==
    /\ call[c].pc = "buildHashInput"
    /\ \E e \in HashCallEnv :
         LET key == buildHashInput(call[c].ip, userAgent)
             h == hashToUint32Call(key, e)
         IN  IF h.pending
             THEN /\ call' = [call EXCEPT ![c].pc = "digest", ![c].key = key,
                                          ![c].bytes = h.bytes]
                  /\ ev' = [Event("buildHashInput", c) EXCEPT !.key = key]
                  /\ UNCHANGED <<ls, prev, manual>>
             ELSE Finished(c, key, [score |-> h.score, stage |-> h.stage,
                                    tried |-> h.tried])
    /\ UNCHANGED userAgent

(***************************************************************************)
(* The digest's promise settles: hashToUint32 resumes and returns.         *)
(***************************************************************************)
DigestSettles(c) ==
    /\ call[c].pc = "digest"
    /\ \E e \in HashSettleEnv :
         Finished(c, call[c].key, hashToUint32Settled(call[c].key, call[c].bytes, e))
    /\ UNCHANGED userAgent

(***************************************************************************)
(* setFairBucket(bucket): synchronous.                                     *)
(***************************************************************************)
Arguments == {"A", "B", "C", "a", ""}

SetManual(bucket) ==
    /\ \E t \in IF bucket \in {"A", "B"} THEN WriteEnv ELSE {<<FALSE, FALSE>>} :
         LET r == setFairBucket(ls, bucket, t)
             solo == \A d \in Calls : ~Busy(d)
         IN  /\ ls' = r.ls
             /\ ev' = [Event("setFairBucket", "") EXCEPT
                         !.returned = "setFairBucket", !.arg = bucket,
                         !.ret = r.ret, !.exc = r.exc, !.err = r.err,
                         !.acc = r.log, !.moved = (r.ls # ls), !.sf = Threw(r.log),
                         !.nw = NewWrites(r.log), !.solo = solo]
             /\ IF r.err
                THEN /\ manual' = Null
                     /\ UNCHANGED <<call, prev>>
                ELSE /\ call' = Disturbed("")
                     /\ prev' = Summary("setFairBucket", bucket, NewWrites(r.log),
                                        ~Threw(r.log), solo, <<>>, "", {})
                     /\ manual' = IF Threw(r.log) \/ r.exc THEN Null ELSE bucket
    /\ UNCHANGED userAgent

(***************************************************************************)
(* getSavedBucket() and isManualOverride(), called from outside.           *)
(***************************************************************************)
GetSaved ==
    /\ \E threw \in BOOLEAN :
         LET r == getSavedBucket(ls, threw)
         IN  /\ ls' = r.ls
             /\ ev' = [Event("getSavedBucket", "") EXCEPT
                         !.returned = "getSavedBucket", !.ret = r.ret,
                         !.exc = r.exc, !.acc = r.log, !.moved = (r.ls # ls),
                         !.sf = threw]
    /\ UNCHANGED <<userAgent, call, prev, manual>>

IsManual ==
    /\ \E threw \in BOOLEAN :
         LET r == isManualOverride(ls, threw)
         IN  /\ ls' = r.ls
             /\ ev' = [Event("isManualOverride", "") EXCEPT
                         !.returned = "isManualOverride", !.ret = boolString(r.ret),
                         !.exc = r.exc, !.acc = r.log, !.moved = (r.ls # ls),
                         !.sf = threw]
    /\ UNCHANGED <<userAgent, call, prev, manual>>

\* One caller of the asynchronous functions; the synchronous ones at any time.
Next ==
    \/ AssignCall("first")
    \/ ClearCall("first")
    \/ PeekCall("first")
    \/ GeoSettles("first")
    \/ KeyReady("first")
    \/ DigestSettles("first")
    \/ \E bucket \in Arguments : SetManual(bucket)
    \/ GetSaved
    \/ IsManual

Spec == Init /\ [][Next]_vars

\* Two callers of assignFairBucket on a fresh store, each calling once: no
\* call is made once one has returned.
RaceNext ==
    \/ \E c \in Calls : prev.op = "none" /\ AssignCall(c)
    \/ \E c \in Calls : GeoSettles(c)
    \/ \E c \in Calls : KeyReady(c)
    \/ \E c \in Calls : DigestSettles(c)

RaceSpec == Init /\ [][RaceNext]_vars

\* One caller of assignFairBucket and clearFairBucket.  The promise of
\* getGeoIP() and the promise of the digest settle, each resolved or
\* rejected, and a call whose await has settled is resumed by the event loop.
\* KeyReady is enabled exactly while the call is at buildHashInput, and
\* DigestSettles exactly while it is at digest, and a step of either leaves
\* that place: their weak fairness is that the call is at neither forever.
LiveNext ==
    \/ AssignCall("first")
    \/ ClearCall("first")
    \/ GeoSettles("first")
    \/ KeyReady("first")
    \/ DigestSettles("first")

LiveSpec ==
    /\ Init /\ [][LiveNext]_vars
    /\ WF_vars(GeoSettles("first"))
    /\ []<>(call["first"].pc # "buildHashInput")
    /\ []<>(call["first"].pc # "digest")

(***************************************************************************)
(* Properties                                                              *)
(***************************************************************************)

\* assignFairBucket has returned, and the operation on the store that had
\* returned before it was assignFairBucket too; nothing else wrote the store
\* between the start of the first call and the return of the second.
TwoAssigns ==
    /\ ev.returned = "assignFairBucket"
    /\ ev.solo
    /\ ev.pred.op = "assignFairBucket"

SameAssignment == ev.ret = ev.pred.val /\ ev.pred.nw + ev.nw <= 1

AssignAfterSet ==
    /\ ev.returned = "assignFairBucket"
    /\ ev.solo
    /\ ev.pred.op = "setFairBucket"

OverrideReturned == ev.ret = ev.pred.val /\ isManualOverride(ls, FALSE).ret

C3_OverrideKept ==
    manual # Null =>
        /\ ls[FAIR_BUCKET_STORAGE_KEY] = manual
        /\ ls[FAIR_BUCKET_MANUAL_KEY] = "true"

\* clearFairBucket has returned a bucket it computed in this call, the one
\* line 154 of getHashBasedBucket gives for the score computed, and the flag
\* isManualOverride() reads is not set.
Reassigned ==
    /\ ev.fresh
    /\ ev.ret = hashBasedBucket(ev.score)
    /\ ~isManualOverride(ls, FALSE).ret

C5_InvalidRejected ==
    ev.op = "setFairBucket" /\ ev.arg \notin {"A", "B"} =>
        /\ ev.acc = <<>>
        /\ ~ev.moved
        /\ ev.err
        /\ ~ev.exc

\* setFairBucket("C") has returned with a manual assignment in the store.
C5_Witness ==
    /\ ev.op = "setFairBucket" /\ ev.arg = "C"
    /\ ev.err
    /\ ls[FAIR_BUCKET_STORAGE_KEY] \in {"A", "B"}
    /\ ls[FAIR_BUCKET_MANUAL_KEY] = "true"

\* C6: whatever localStorage, getGeoIP, crypto.subtle.digest and
\* crypto.getRandomValues do, assignFairBucket returns "A" or "B" and no
\* exception leaves it.
C6_AlwaysAssigns ==
    ev.returned = "assignFairBucket" => ev.ret \in {"A", "B"} /\ ~ev.exc

\* assignFairBucket has returned with every capability failing: no getGeoIP
\* identity, a score from Math.random, and both of its writes thrown.
C6_Witness ==
    /\ ev.returned = "assignFairBucket"
    /\ ev.stage = "Math.random"
    /\ SubSeq(ev.key, 1, Len(STR_RANDOM)) = STR_RANDOM
    /\ Len(ev.acc) = 2 /\ ev.acc[1].threw /\ ev.acc[2].threw
    /\ ev.ret \in {"A", "B"}

\* The second of two calls of assignFairBucket that both found no assignment
\* before either stored one has returned, with the key the first built.
RaceLost ==
    /\ ev.returned = "assignFairBucket"
    /\ ev.fresh
    /\ ev.call \in ev.pred.with
    /\ ev.key = ev.pred.key

RaceBenign ==
    /\ ev.ret = ev.pred.val
    /\ ls[FAIR_BUCKET_STORAGE_KEY] = ev.ret
    /\ ls[FAIR_BUCKET_MANUAL_KEY] = Null

PeekSteps == {"getHashBasedBucket", "getGeoIP", "buildHashInput"}

\* C8: no step of getHashBasedBucket calls a function of the store, and
\* each leaves localStorage as it was.
C8_PeekPure == ev.op \in PeekSteps => ev.acc = <<>> /\ ~ev.moved

\* getHashBasedBucket has returned "A" while the store holds the manual
\* assignment "B".
C8_Witness ==
    /\ ev.returned = "getHashBasedBucket"
    /\ ev.ret = "A"
    /\ ls[FAIR_BUCKET_STORAGE_KEY] = "B"
    /\ ls[FAIR_BUCKET_MANUAL_KEY] = "true"

\* what a function of the store returns when localStorage throws
Sentinel(fn) ==
    IF fn = "getSavedBucket" THEN Null
    ELSE IF fn = "isManualOverride" THEN "false"
    ELSE Undefined

\* C9: when the localStorage call of getSavedBucket, isManualOverride,
\* saveBucket, setManualOverride or clearFairBucket throws, the function
\* returns null, false or nothing, no exception leaves it or its caller, and
\* localStorage is as it was before the call.
C9_FailuresAbsorbed ==
    /\ ~ev.exc
    /\ \A i \in 1..Len(ev.acc) :
         ev.acc[i].threw =>
            /\ ~ev.acc[i].exc
            /\ ev.acc[i].ret = Sentinel(ev.acc[i].fn)
            /\ ~ev.acc[i].changed

\* clearFairBucket has met a removeItem and a getItem that threw, with an
\* assignment in the store, and has gone on to compute.
C9_Witness ==
    /\ ev.op = "clearFairBucket"
    /\ Len(ev.acc) = 2 /\ ev.acc[1].threw /\ ev.acc[2].threw
    /\ ev.acc[2].fn = "getSavedBucket"
    /\ ls[FAIR_BUCKET_STORAGE_KEY] \in {"A", "B"}
    /\ call[ev.call].op = "clearFairBucket"

\* the scores C10 names: 0, 2^31 - 1, 2^31 and 2^32 - 1
BoundaryScores == {U32(0, 0), U32(32767, 65535), U32(32768, 0), U32(65535, 65535)}

\* score >= 2147483648: the score is 65536 * hi + lo with lo below 65536,
\* and 2147483648 is 65536 * 32768
AtLeastMiddle(score) == score.hi >= 32768

Threshold(bucket, score) ==
    /\ bucket = "A" <=> AtLeastMiddle(score)
    /\ bucket = "B" <=> ~AtLeastMiddle(score)

\* C10: the bucket of a score is "A" exactly when the score is at least
\* 2147483648 and "B" exactly when it is below, for every score
\* assignFairBucket, clearFairBucket and getHashBasedBucket compute and for
\* the scores 0, 2147483647, 2147483648 and 4294967295.
C10_Threshold ==
    /\ \A score \in BoundaryScores :
         Threshold(assignBucket(score), score) /\ Threshold(hashBasedBucket(score), score)
    /\ ev.fresh \/ ev.returned = "getHashBasedBucket" => Threshold(ev.ret, ev.score)

\* assignFairBucket has returned "A" for the score 2147483648.
C10_Witness ==
    /\ ev.returned = "assignFairBucket"
    /\ ev.fresh
    /\ ev.score = EXACT_MIDDLE_POINT
    /\ ev.ret = "A"

\* the identifier is one getMyIpAddress makes up (line 178)
IsFallback(ip) ==
    Len(ip) >= Len(STR_RANDOM) /\ SubSeq(ip, 1, Len(STR_RANDOM)) = STR_RANDOM

\* getGeoIP() resolved with an object whose ip is a string that is not empty
\* once trimmed
UsableIp(o) == o.k = "resolves" /\ o.ip.t = "string" /\ trim(o.ip.s) # <<>>

\* C11 as stated: getMyIpAddress returns the trimmed ip when getGeoIP()
\* resolves with a string ip that is not empty once trimmed, and in every
\* other case (getGeoIP missing, throwing or rejecting, an ip that is not a
\* string, an ip empty once trimmed) the random fallback identifier.
C11_OnlyStringIp ==
    /\ ev.op = "getGeoIP" =>
         IF UsableIp(ev.geo) THEN call[ev.call].ip = trim(ev.geo.ip.s)
         ELSE IsFallback(call[ev.call].ip)
    /\ \A c \in Calls :
         call[c].pc = "buildHashInput" /\ ev.op # "getGeoIP" => IsFallback(call[c].ip)

\* C12 as stated: when an operation returns, whichever of its store calls
\* threw, the manual flag is "true" only if an assignment is stored.
C12_FlagHasAssignment ==
    ev.returned \in {"assignFairBucket", "setFairBucket", "clearFairBucket"} =>
        (ls[FAIR_BUCKET_MANUAL_KEY] = "true" => ls[FAIR_BUCKET_STORAGE_KEY] # Null)

\* the calls that are building their key or hashing it
Building == {c \in Calls : call[c].pc \in {"buildHashInput", "digest"}}

\* every build of the run that fell back on a random identifier got the same
SameFallbackId ==
    \A c, d \in Building :
        IsFallback(call[c].ip) /\ IsFallback(call[d].ip) => call[c].ip = call[d].ip

\* two computations of one run, both without a network identity and both
\* scored by the same deterministic stage, gave the same bucket
SameFallbackBucket ==
    /\ ev.returned = "assignFairBucket" /\ ev.fresh
    /\ ev.call \in ev.pred.with
    /\ IsFallback(ev.key) /\ IsFallback(ev.pred.key)
    /\ ev.stage = ev.pred.stage /\ ev.stage \in {"SHA-256", "fnv1a32"}
    => ev.ret = ev.pred.val

\* C13 as stated: the identity-key builds of one run that fall back on the
\* random identifier all get the same identifier, so the hash-based
\* computations of that run give the same bucket.
C13_StableFallback == SameFallbackId /\ SameFallbackBucket

\* the order of the stages of hashToUint32
StageOrder == <<"SHA-256", "fnv1a32", "getRandomValues", "Math.random">>

IsUint32(score) == score.hi \in 0..65535 /\ score.lo \in 0..65535

\* C14: when hashToUint32 returns, the stages it entered are the first ones
\* of SHA-256, FNV-1a, crypto.getRandomValues, Math.random, in that order,
\* each entered once; all but the last threw or were unavailable; the last
\* returned and its value is the score (for the two deterministic stages,
\* the digest's first four bytes and the FNV-1a hash of the key); no later
\* stage was entered; and the score is an integer from 0 to 2^32 - 1.
C14_StageOrder ==
    ev.stage # "" =>
        LET n == Len(ev.tried)
        IN  /\ n \in 1..Len(StageOrder)
            /\ \A i \in 1..n : ev.tried[i].stage = StageOrder[i]
            /\ \A i \in 1..(n - 1) : ~ev.tried[i].ok
            /\ ev.tried[n].ok
            /\ ev.stage = StageOrder[n]
            /\ ev.stage = "SHA-256" =>
                 ev.score = getUint32BE(digest(textEncode(ev.key)))
            /\ ev.stage = "fnv1a32" => ev.score = fnv1a32(ev.key)
            /\ ev.stage = "getRandomValues" =>
                 \E v \in SecureRandom : v.ok /\ ev.score = v.v
            /\ ev.stage = "Math.random" =>
                 \E q \in RandomSamples : ev.score = randomToUint32(q)
            /\ IsUint32(ev.score)

\* hashToUint32 has returned from its last stage, after the three before it
\* failed one after the other.
C14_Witness ==
    /\ ev.returned = "getHashBasedBucket"
    /\ ev.stage = "Math.random"
    /\ Len(ev.tried) = 4
    /\ \A i \in 1..3 : ~ev.tried[i].ok

\* a step of assignFairBucket in which getSavedBucket returned a value
SavedFound ==
    /\ ev.op = "assignFairBucket"
    /\ ev.acc # <<>>
    /\ ev.acc[1].fn = "getSavedBucket"
    /\ ev.acc[1].ret \notin {Null, ""}

\* C15: when getSavedBucket returns a value to assignFairBucket, the call
\* returns that value in the same step, without getGeoIP or hashToUint32
\* having been called (no key, no score, no stage, nothing awaited), having
\* only read the store, and with both fields as they were.
C15_NoOpRead ==
    SavedFound =>
        /\ ev.returned = "assignFairBucket"
        /\ ev.ret = ev.acc[1].ret
        /\ ~ev.exc
        /\ call[ev.call].pc = "idle"
        /\ ev.key = <<>> /\ ev.stage = "" /\ ev.tried = <<>> /\ ~ev.fresh
        /\ \A i \in 1..Len(ev.acc) :
             ev.acc[i].fn \in {"getSavedBucket", "isManualOverride"} /\ ~ev.acc[i].changed
        /\ ~ev.moved
        /\ ls[FAIR_BUCKET_STORAGE_KEY] = ev.ret

\* assignFairBucket has returned a stored manual override, and one it had
\* stored itself
C15_Witness ==
    /\ SavedFound
    /\ ev.returned = "assignFairBucket"
    /\ ev.ret = "B"
    /\ ls[FAIR_BUCKET_MANUAL_KEY] = "true"
    /\ ev.pred.op = "setFairBucket"

\* this step takes the store from holding an assignment to holding none
AssignmentRemoved ==
    ls[FAIR_BUCKET_STORAGE_KEY] # Null /\ ls'[FAIR_BUCKET_STORAGE_KEY] = Null

\* a removeItem of clearFairBucket threw in this step
RemoveThrew ==
    \E i \in 1..Len(ev'.acc) : ev'.acc[i].fn = "clearFairBucket" /\ ev'.acc[i].threw

\* only a step of clearFairBucket removes a stored assignment
OnlyClearRemoves == AssignmentRemoved => ev'.op = "clearFairBucket"

Rank(pc) ==
    CASE pc = "getGeoIP" -> 1
      [] pc = "buildHashInput" -> 2
      [] pc = "digest" -> 3
      [] OTHER -> 0

\* A step of a call in flight returns or takes the call further: getGeoIP,
\* called on entry, and the digest, called when the key is built, are not
\* called again.
NoRetry ==
    \A c \in Calls :
        ev'.call = c /\ call[c].pc # "idle" =>
            call'[c].pc = "idle" \/ Rank(call'[c].pc) > Rank(call[c].pc)

\* no stage of hashToUint32 was entered twice for one score
NoStageTwice ==
    \A i, j \in 1..Len(ev.tried) : ev.tried[i].stage = ev.tried[j].stage => i = j

\* C17: when the promises of getGeoIP() and of the digest settle, resolved
\* or rejected, every call of assignFairBucket and of clearFairBucket
\* returns; until it does, each of its steps takes it further, so getGeoIP
\* is called once, and each stage of hashToUint32 is entered at most once.
C17_Completes ==
    /\ [][NoRetry]_vars
    /\ []NoStageTwice
    /\ Busy("first") ~> ~Busy("first")

\* clearFairBucket has returned after both of its awaits settled: getGeoIP
\* rejected, the digest resolved.
C17_Witness ==
    /\ ev.returned = "clearFairBucket"
    /\ ev.fresh
    /\ ev.stage = "SHA-256"
    /\ IsFallback(ev.key)
    /\ ~Busy(ev.call)

\* x times the FNV prime 16777619 = 256 * 65536 + 403, modulo 2^32, on the
\* two 16-bit halves of x
TimesFnvPrime(x) ==
    LET low == x.lo * 403
    IN  U32((x.hi * 403 + x.lo * 256 + low \div 65536) % 65536, low % 65536)

\* reference FNV-1a over code units: XOR the unit in, multiply by the prime
ReferenceRound(h, c) == TimesFnvPrime(U32(h.hi, bitXor(h.lo, c)))

RECURSIVE ReferenceLoop(_, _, _)
ReferenceLoop(h, str, i) ==
    IF i > Len(str) THEN h ELSE ReferenceLoop(ReferenceRound(h, str[i]), str, i + 1)

ReferenceFnv1a(str) == ReferenceLoop(U32(33052, 40389), str, 1)

\* accumulators with the top bit clear and set (the latter are negative as
\* 32-bit signed values), and code units below and above 255
SampleHalves == {0, 1, 255, 256, 32767, 32768, 33052, 40389, 65535}

SampleUnits == {0, 1, 46, 124, 255, 256, 55357, 65535}

\* the empty string, ASCII, and strings of code units above 255
SampleStrings == {<<>>, <<49, 46, 50, 124, 109, 122>>, <<65535>>, <<55357, 56832, 233>>}

\* "1.2.3.4|test-agent"
FixedInput ==
    <<49, 46, 50, 46, 51, 46, 52, 124, 116, 101, 115, 116, 45, 97, 103, 101, 110, 116>>

\* the loop of fnv1a32 and the reference loop over FixedInput, six code
\* units at a time, end on the same value, 566215699 = 8639 * 65536 + 50195
FixedInputAgrees ==
    \A a \in {fnvLoop(FNV_OFFSET_BASIS, SubSeq(FixedInput, 1, 6), 1)} :
    \A b \in {fnvLoop(a, SubSeq(FixedInput, 7, 12), 1)} :
    \A c \in {fnvLoop(b, SubSeq(FixedInput, 13, 18), 1)} :
    \A u \in {ReferenceLoop(U32(33052, 40389), SubSeq(FixedInput, 1, 6), 1)} :
    \A v \in {ReferenceLoop(u, SubSeq(FixedInput, 7, 12), 1)} :
    \A w \in {ReferenceLoop(v, SubSeq(FixedInput, 13, 18), 1)} :
        a = u /\ b = v /\ c = w /\ c = U32(8639, 50195)

\* the round of fnv1a32 is the reference round, and fnv1a32 the reference
\* hash, on the samples
FnvIsReference ==
    /\ \A hi \in SampleHalves, lo \in SampleHalves, c \in SampleUnits :
         /\ fnvRound(U32(hi, lo), c) = ReferenceRound(U32(hi, lo), c)
         /\ IsUint32(fnvRound(U32(hi, lo), c))
    /\ \A str \in SampleStrings :
         fnv1a32(str) = ReferenceFnv1a(str) /\ IsUint32(fnv1a32(str))
    /\ fnv1a32(<<>>) = U32(33052, 40389)
    /\ FixedInputAgrees

\* C18: fnv1a32 starts from 0x811c9dc5 and in each round XORs the code unit
\* in and adds the shifts, which is the multiplication by 16777619 modulo
\* 2^32, also when the top bit of the accumulator is set; its result is an
\* integer from 0 to 2^32 - 1.  Checked on sample accumulators, code units
\* and strings, and on every key that hashToUint32 hashes with fnv1a32.
C18_FnvReference ==
    /\ FnvIsReference
    /\ ev.stage = "fnv1a32" =>
         ev.score = ReferenceFnv1a(ev.key) /\ IsUint32(ev.score)

\* hashToUint32 has returned the FNV-1a hash of a key, and the accumulator
\* had its top bit set on the way
C18_Witness ==
    /\ ev.stage = "fnv1a32"
    /\ ev.returned = "assignFairBucket"
    /\ Len(ev.key) > 0
    /\ ev.score = ReferenceFnv1a(ev.key)
    /\ ReferenceRound(U32(33052, 40389), ev.key[1]).hi >= 32768

\* C19: in every state reached from the empty store, the assignment field
\* is absent or "A" or "B", the manual flag is absent or "true", and each
\* call of assignFairBucket that has returned has returned "A" or "B".
C19_ValueDomain ==
    /\ ls[FAIR_BUCKET_STORAGE_KEY] \in {Null, "A", "B"}
    /\ ls[FAIR_BUCKET_MANUAL_KEY] \in {Null, "true"}
    /\ ev.returned = "assignFairBucket" => ev.ret \in {"A", "B"}

\* setFairBucket has been called with a value that is no bucket while a
\* call of assignFairBucket was suspended, and the store holds what it held.
C19_Witness ==
    /\ ev.op = "setFairBucket" /\ ev.arg = "a"
    /\ Computing("first") /\ call["first"].op = "assignFairBucket"
    /\ ls[FAIR_BUCKET_STORAGE_KEY] = "A"
    /\ ls[FAIR_BUCKET_MANUAL_KEY] = "true"

=============================================================================
